---- MODULE Spec2Model ----
(***************************************************************************)
(* bg-switch: the ProgressiveDeployment reconciler, its replica            *)
(* distribution, the metrics evaluator and the promote / rollback          *)
(* commands of the bgswitch CLI, as a state machine over one record, its   *)
(* target (stable) Deployment and its canary Deployment.                   *)
(***************************************************************************)
EXTENDS Integers, Sequences, FiniteSets, TLC

VARIABLES
    spec,        \* ProgressiveDeploymentSpec of the record (never written)
    status,      \* ProgressiveDeploymentStatus as persisted by the API server
    version,     \* resourceVersion of the record
    target,      \* the target (stable) Deployment: [Replicas]
    canary,      \* the canary Deployment: [Exists, Replicas]
    now,         \* wall clock, in ticks
    prom,        \* what Prometheus answers to the two queries right now
    req,         \* the Reconcile call in flight: the copy r.Get fetched
    result,      \* what the last finished Reconcile call returned
    preRollout,  \* history: replica count of the target before the rollout
    traffic,     \* history: the adjustTraffic attempts of the latest step
    call,        \* a call of one of the pure functions: arguments and result
    peer         \* a second record of the namespace, while the worker holds
                 \* the first: its status, resourceVersion, last result

vars == <<spec, status, version, target, canary, now, prom, req, result,
          preRollout, traffic, call, peer>>

----------------------------------------------------------------------------
(* Bounds of the model *)

MaxTime == 4            \* the clock stops after this many ticks
SmallTotal == 1         \* replica counts of the target before the rollout
LargeTotal == 10
MaxDuration == 2        \* the longest stepDuration, in ticks
MaxCallTotal == 12      \* calls of calculateReplicaDistribution: totals 0..12
MaxCallPct == 101       \*   and percentages -1..101
MaxMetric == 2          \* calls of AnalyzeHealth: observed values 0..2
MaxThreshold == 1       \*   and thresholds 0..1
MaxCalls == 2           \* calls of createCanaryDeployment in a row

(* Program constants *)

TicksPerSecond == 2     \* metav1.Time is persisted with a resolution of 1 s
Null == -1              \* LastAnalysisTime == nil
QueryFailed == -1       \* QueryMetric returned an error

CanaryName(t) == t \o "-canary"

StepLists == { <<>>, <<50>>, <<25, 100>> }
StepDurations == {0, MaxDuration}
TotalReplicas == {SmallTotal, LargeTotal}
ErrorRateOnly ==
    [ErrorRate |-> [Query |-> "errors", Threshold |-> 1],
     Latency   |-> [Query |-> "", Threshold |-> 0]]
MetricsConfigs == {ErrorRateOnly}
PromStates ==
    [errorRate : {0, 2, QueryFailed}, latency : {0}]

Phases == {"", "Initializing", "Analyzing", "Promoting", "RollingBack",
           "Completed", "RolledBack", "Failed"}
Terminal == {"Completed", "RolledBack", "Failed"}

NoReq == [active |-> FALSE, rv |-> 0,
          pd |-> [Phase |-> "", CurrentStep |-> 0, CanaryPercentage |-> 0,
                  CanaryDeployment |-> "", HealthStatus |-> "",
                  LastAnalysisTime |-> Null]]

NoTraffic == [step |-> -1, stable |-> 0, canary |-> 0, done |-> FALSE]

(* no pure function is under test: the controller and the CLI run *)
NoCall == [fn |-> "", args |-> <<>>, ret |-> <<>>, done |-> FALSE]

(* the namespace holds one record only *)
NoPeer == [present |-> FALSE]

----------------------------------------------------------------------------
(* metav1.Time round trip through the API server: RFC 3339, whole seconds *)
Truncate(t) == t - (t % TicksPerSecond)

(* mutant of Ceil100: the division rounds down *)
Ceil100_Floor(x) == x \div 100

(* mutant of Ceil100: the division rounds to the nearest *)
Ceil100_Round(x) == (x + 50) \div 100

(* ceil(total * pct / 100) *)
Ceil100(x) == (x + 99) \div 100

Max0(x) == IF x < 0 THEN 0 ELSE x

(* mutant of calculateReplicaDistribution: the early return for a *)
(* percentage of 100 or more is missing                           *)
calculateReplicaDistribution_NoUpperReturn(totalReplicas, canaryPercentage) ==
    IF canaryPercentage <= 0 THEN [stable |-> totalReplicas, canary |-> 0]
    ELSE LET canaryReplicas == Ceil100(totalReplicas * canaryPercentage)
         IN [stable |-> Max0(totalReplicas - canaryReplicas),
             canary |-> Max0(canaryReplicas)]

calculateReplicaDistribution(totalReplicas, canaryPercentage) ==
    IF canaryPercentage <= 0 THEN [stable |-> totalReplicas, canary |-> 0]
    ELSE IF canaryPercentage >= 100 THEN [stable |-> 0, canary |-> totalReplicas]
    ELSE LET canaryReplicas == Ceil100(totalReplicas * canaryPercentage)
         IN [stable |-> Max0(totalReplicas - canaryReplicas),
             canary |-> Max0(canaryReplicas)]

(* mutant of QueryMetric: a failed query is reported as the value 0 *)
QueryMetric_ZeroOnError(p, name) == IF p[name] = QueryFailed THEN 0 ELSE p[name]

(* QueryMetric: the value, or QueryFailed (the backend returned an error, an *)
(* empty vector or a result of an unexpected type)                           *)
QueryMetric(p, name) == p[name]

(* mutant of Configured: a check with an empty query counts as configured *)
Configured_Always(c) == TRUE

(* AnalyzeHealth: "if pd.Spec.Metrics.ErrorRate.Query != """ *)
Configured(c) == c.Query # ""

(* mutant of Exceeds: a value equal to the threshold is unhealthy *)
Exceeds_OrEqual(value, threshold) == value >= threshold

(* AnalyzeHealth: "if errorRate > pd.Spec.Metrics.ErrorRate.Threshold" *)
Exceeds(value, threshold) == value > threshold

(* the nil map AnalyzeHealth returns with an error *)
NilMetrics == {<<"nil", 0>>}

(* mutant of ReturnedMetrics: no map is returned with an unhealthy verdict *)
ReturnedMetrics_OnlyWhenHealthy(healthy, metrics) ==
    IF healthy THEN metrics ELSE NilMetrics

(* AnalyzeHealth: "return healthy, metrics, nil" *)
ReturnedMetrics(healthy, metrics) == metrics

(* AnalyzeHealth: [err, healthy, metrics], and the checks it queried *)
AnalyzeHealth(m, p) ==
    LET erOn  == Configured(m.ErrorRate)
        latOn == Configured(m.Latency)
        er    == QueryMetric(p, "errorRate")
        lat   == QueryMetric(p, "latency")
        erQ   == IF erOn THEN {"errorRate"} ELSE {}
        latQ  == IF latOn THEN {"latency"} ELSE {}
    IN IF erOn /\ er = QueryFailed
          THEN [err |-> TRUE, healthy |-> FALSE, metrics |-> NilMetrics,
                queried |-> erQ]
       ELSE IF latOn /\ lat = QueryFailed
          THEN [err |-> TRUE, healthy |-> FALSE, metrics |-> NilMetrics,
                queried |-> erQ \cup latQ]
       ELSE LET healthy == /\ ~(erOn /\ Exceeds(er, m.ErrorRate.Threshold))
                           /\ ~(latOn /\ Exceeds(lat, m.Latency.Threshold))
                metrics == (IF erOn THEN {<<"errorRate", er>>} ELSE {})
                           \cup (IF latOn THEN {<<"latency", lat>>} ELSE {})
            IN [err |-> FALSE, healthy |-> healthy,
                metrics |-> ReturnedMetrics(healthy, metrics),
                queried |-> erQ \cup latQ]

----------------------------------------------------------------------------
Init ==
    /\ spec \in [TargetDeployment : {"app"}, CanarySteps : StepLists,
                 StepDuration : StepDurations, Metrics : MetricsConfigs,
                 AutoPromote : BOOLEAN]
    /\ status = NoReq.pd
    /\ version = 1
    /\ target \in [Replicas : TotalReplicas]
    /\ preRollout = target.Replicas
    /\ canary = [Exists |-> FALSE, Replicas |-> 0]
    /\ now = 0
    /\ prom \in PromStates
    /\ req = NoReq
    /\ result = [Requeue |-> FALSE, RequeueAfter |-> 0, Err |-> FALSE,
                 Panic |-> FALSE,
                 Conflict |-> FALSE]
    /\ traffic = NoTraffic
    /\ call = NoCall
    /\ peer = NoPeer

(* what Reconcile returns: the ctrl.Result and the error; Conflict tells an *)
(* error that is the API server's rejection of a stale status write        *)
Result(requeue, after, err) ==
    [Requeue |-> requeue, RequeueAfter |-> after, Err |-> err,
     Panic |-> FALSE, Conflict |-> FALSE]

(* a runtime panic in a handler ("index out of range"): the call is recovered *)
(* by the controller runtime and counted as a failed Reconcile                *)
Panicked ==
    [Requeue |-> FALSE, RequeueAfter |-> 0, Err |-> TRUE, Panic |-> TRUE,
     Conflict |-> FALSE]

(* mutant of Committed: the resourceVersion of the copy is not checked *)
Committed_NoVersionCheck(ok) == ok

(* r.Status().Update(ctx, pd): rejected when the copy is stale *)
Committed(ok) == ok /\ req.rv = version

(* mutant of AfterWrite: the error of the status write is dropped *)
AfterWrite_ErrorDropped(ok, success) == success

(* "if err := r.updateStatus(ctx, pd); err != nil { return ctrl.Result{}, err }" *)
(* and otherwise what the handler returns after the write                        *)
AfterWrite(ok, success) ==
    IF Committed(ok)
    THEN success
    ELSE [Requeue |-> FALSE, RequeueAfter |-> 0, Err |-> TRUE,
          Panic |-> FALSE, Conflict |-> req.rv # version]

(* the API server stores the status; a write that changes nothing leaves *)
(* the resourceVersion as it is                                          *)
Store(st) ==
    /\ status' = st
    /\ version' = IF st = status THEN version ELSE version + 1

updateStatus(pd, ok) ==
    IF Committed(ok)
    THEN Store(pd)
    ELSE UNCHANGED <<status, version>>

Env == <<spec, now, prom, preRollout, call, peer>>

(* mutant of Dispatch: the case "Analyzing" calls handleInitializing *)
Dispatch_AnalyzingAsInitializing(phase) ==
    IF phase = "" THEN "initialize"
    ELSE IF phase = "Analyzing" THEN "Initializing"
    ELSE IF phase \in {"Initializing", "Promoting", "RollingBack"} THEN phase
    ELSE "other"

(* Reconcile: the branch that handles a record of this phase: the          *)
(* initialisation of an unset phase, the handler of the phase's case, or   *)
(* the rest of the switch (the terminal case and the default)              *)
Dispatch(phase) ==
    IF phase = "" THEN "initialize"
    ELSE IF phase \in {"Initializing", "Analyzing", "Promoting", "RollingBack"}
    THEN phase
    ELSE "other"

(* Reconcile, step 1: fetch the ProgressiveDeployment instance *)
ReconcileGet ==
    /\ ~req.active
    /\ req' = [active |-> TRUE, rv |-> version, pd |-> status]
    /\ UNCHANGED <<status, version, target, canary, result, traffic>>
    /\ UNCHANGED Env

(* Reconcile, step 2: initialize status if this is a new resource *)
ReconcileInitialize ==
    /\ req.active /\ Dispatch(req.pd.Phase) = "initialize"
    /\ \E ok \in BOOLEAN :
         /\ updateStatus([req.pd EXCEPT !.Phase = "Initializing",
                                        !.CurrentStep = 0,
                                        !.CanaryPercentage = 0,
                                        !.HealthStatus = "Unknown"], ok)
         /\ result' = AfterWrite(ok, Result(FALSE, 0, FALSE))
    /\ req' = NoReq
    /\ UNCHANGED <<target, canary, traffic>>
    /\ UNCHANGED Env

(* mutant of StepPercentage: always the percentage of the first step *)
StepPercentage_First(k) == spec.CanarySteps[1]

(* pd.Spec.CanarySteps[k], a Go slice indexed from 0 *)
StepPercentage(k) == spec.CanarySteps[k + 1]

(* the index check Go makes on pd.Spec.CanarySteps[i]; it panics otherwise *)
InBounds(i) == 0 <= i /\ i < Len(spec.CanarySteps)

(* getTargetDeployment: the Deployment, or an error *)
getTargetDeployment(ok) == [err |-> ~ok, deployment |-> target]

(* mutant of createCanaryDeployment: an existing canary is replaced by a *)
(* fresh clone with 0 replicas                                          *)
createCanaryDeployment_Recreates(c, ok) ==
    IF ok
    THEN [err |-> FALSE, canary |-> [Exists |-> TRUE, Replicas |-> 0],
          name |-> CanaryName(spec.TargetDeployment)]
    ELSE [err |-> TRUE, canary |-> c, name |-> CanaryName(spec.TargetDeployment)]

(* createCanaryDeployment: a clone of the target with 0 replicas; an existing *)
(* canary is fetched and returned as it is                                    *)
createCanaryDeployment(c, ok) ==
    IF c.Exists
    THEN [err |-> ~ok, canary |-> c, name |-> CanaryName(spec.TargetDeployment)]
    ELSE IF ok
    THEN [err |-> FALSE, canary |-> [Exists |-> TRUE, Replicas |-> 0],
          name |-> CanaryName(spec.TargetDeployment)]
    ELSE [err |-> TRUE, canary |-> c, name |-> CanaryName(spec.TargetDeployment)]

(* mutant of Initialized: the rollout starts at the second step *)
Initialized_AtStepOne(pd, name) ==
    [pd EXCEPT !.Phase = "Analyzing",
               !.CurrentStep = 1,
               !.CanaryPercentage = StepPercentage(0),
               !.CanaryDeployment = name,
               !.HealthStatus = "Unknown"]

(* mutant of Initialized: the analysis start is stamped at once *)
Initialized_Stamped(pd, name) ==
    [pd EXCEPT !.Phase = "Analyzing",
               !.CurrentStep = 0,
               !.CanaryPercentage = StepPercentage(0),
               !.CanaryDeployment = name,
               !.HealthStatus = "Unknown",
               !.LastAnalysisTime = Truncate(now)]

(* handleInitializing, step 3: the status it writes *)
Initialized(pd, name) ==
    [pd EXCEPT !.Phase = "Analyzing",
               !.CurrentStep = 0,
               !.CanaryPercentage = StepPercentage(0),
               !.CanaryDeployment = name,
               !.HealthStatus = "Unknown"]

(* handleInitializing: fetch the target, create the canary, move to Analyzing. *)
(* CanarySteps[0] of an empty list panics after the canary was created: the    *)
(* call ends without a status write.                                           *)
handleInitializing ==
    /\ req.active /\ Dispatch(req.pd.Phase) = "Initializing"
    /\ \E getOk \in BOOLEAN, createOk \in BOOLEAN, ok \in BOOLEAN :
         LET pd == req.pd
             failed == [pd EXCEPT !.Phase = "Failed", !.HealthStatus = "Unknown"]
             t == getTargetDeployment(getOk)
             c == createCanaryDeployment(canary, createOk)
         IN IF t.err
            THEN /\ updateStatus(failed, ok)
                 /\ canary' = canary
                 /\ result' = Result(FALSE, 0, TRUE)
            ELSE IF c.err
            THEN /\ updateStatus(failed, ok)
                 /\ canary' = c.canary
                 /\ result' = Result(FALSE, 0, TRUE)
            ELSE IF ~InBounds(0)
            THEN /\ UNCHANGED <<status, version>>
                 /\ canary' = c.canary
                 /\ result' = Panicked
            ELSE /\ updateStatus(Initialized(pd, c.name), ok)
                 /\ canary' = c.canary
                 /\ result' = AfterWrite(ok, Result(FALSE, 0, FALSE))
    /\ req' = NoReq
    /\ UNCHANGED <<target, traffic>>
    /\ UNCHANGED Env

(* mutant of StillAnalyzing: the elapsed time is not checked *)
StillAnalyzing_NoWait(pd, t) == FALSE

(* mutant of StillAnalyzing: the wait never ends *)
StillAnalyzing_Forever(pd, t) == TRUE

(* mutant of StillAnalyzing: the wait lasts until after the deadline *)
StillAnalyzing_Inclusive(pd, t) == t - pd.LastAnalysisTime <= spec.StepDuration

(* handleAnalyzing: "if elapsed < stepDuration", at time t *)
StillAnalyzing(pd, t) == t - pd.LastAnalysisTime < spec.StepDuration

(* mutant of AtLastStep: the rollout completes one step early *)
AtLastStep_Early(pd) == pd.CurrentStep >= Len(spec.CanarySteps) - 2

(* handlePromoting: "if pd.Status.CurrentStep >= len(pd.Spec.CanarySteps)-1" *)
AtLastStep(pd) == pd.CurrentStep >= Len(spec.CanarySteps) - 1

(* mutant of IsTerminal: Completed is missing from the case, so a completed *)
(* record falls to the default branch and is reset to Initializing          *)
IsTerminal_CompletedMissing(phase) == phase \in {"RolledBack", "Failed"}

(* mutant of IsTerminal: Failed is missing from the case *)
IsTerminal_FailedMissing(phase) == phase \in {"Completed", "RolledBack"}

(* Reconcile: case "Completed", "RolledBack", "Failed" *)
IsTerminal(phase) == phase \in {"Completed", "RolledBack", "Failed"}

FailPoints == {"none", "getTarget", "updateStable", "getCanary", "updateCanary",
               "updateStatus"}

(* adjustTraffic: scale the target to the stable share of its current replica *)
(* count, then the canary to the canary share; stops at the first error       *)
adjustTraffic(pd, targetDeployment, fail) ==
    LET totalReplicas == targetDeployment.Replicas
        d == calculateReplicaDistribution(totalReplicas, pd.CanaryPercentage)
        scaled == [Replicas |-> d.stable]
    IN IF fail = "updateStable"
       THEN [err |-> TRUE, target |-> target, canary |-> canary, d |-> d]
       ELSE IF \/ fail \in {"getCanary", "updateCanary"}
               \/ ~canary.Exists
               \/ pd.CanaryDeployment # CanaryName(spec.TargetDeployment)
       THEN [err |-> TRUE, target |-> scaled, canary |-> canary, d |-> d]
       ELSE [err |-> FALSE, target |-> scaled,
             canary |-> [canary EXCEPT !.Replicas = d.canary], d |-> d]

(* history of adjustTraffic: the distribution the first attempt of a step *)
(* computed, and whether an attempt of that step ran to its end           *)
Attempt(pd, a) ==
    IF traffic.step = pd.CurrentStep
    THEN [traffic EXCEPT !.done = @ \/ ~a.err]
    ELSE [step |-> pd.CurrentStep, stable |-> a.d.stable,
          canary |-> a.d.canary, done |-> ~a.err]

(* mutant of adjustFailed: the error of adjustTraffic is ignored *)
adjustFailed_Ignored(a) == FALSE

(* handleAnalyzing: "if err := r.adjustTraffic(...); err != nil { return }" *)
adjustFailed(a) == a.err

(* handleAnalyzing: without a timestamp adjust the traffic and stamp the    *)
(* analysis start; with one, wait for stepDuration and then move to         *)
(* Promoting (the metrics are not queried, AutoPromote is not read)         *)
handleAnalyzing ==
    /\ req.active /\ Dispatch(req.pd.Phase) = "Analyzing"
    /\ LET pd == req.pd
           stepDuration == spec.StepDuration
           elapsed == now - pd.LastAnalysisTime
       IN IF pd.LastAnalysisTime = Null
          THEN \E fail \in FailPoints :
                 LET t == getTargetDeployment(fail # "getTarget")
                     a == adjustTraffic(pd, t.deployment, fail)
                 IN IF t.err
                    THEN /\ UNCHANGED <<status, version, target, canary, traffic>>
                         /\ result' = Result(FALSE, 0, TRUE)
                    ELSE IF adjustFailed(a)
                    THEN /\ target' = a.target
                         /\ canary' = a.canary
                         /\ traffic' = Attempt(pd, a)
                         /\ UNCHANGED <<status, version>>
                         /\ result' = Result(FALSE, 0, TRUE)
                    ELSE /\ target' = a.target
                         /\ canary' = a.canary
                         /\ traffic' = Attempt(pd, a)
                         /\ updateStatus([pd EXCEPT !.LastAnalysisTime = Truncate(now)],
                                         fail # "updateStatus")
                         /\ result' = AfterWrite(fail # "updateStatus",
                                                 Result(FALSE, stepDuration, FALSE))
          ELSE IF StillAnalyzing(pd, now)
          THEN /\ UNCHANGED <<status, version, target, canary, traffic>>
               /\ result' = Result(FALSE, stepDuration - elapsed, FALSE)
          ELSE \E ok \in BOOLEAN :
                 /\ updateStatus([pd EXCEPT !.Phase = "Promoting",
                                            !.HealthStatus = "Healthy",
                                            !.LastAnalysisTime = Null], ok)
                 /\ result' = AfterWrite(ok, Result(FALSE, 0, FALSE))
                 /\ UNCHANGED <<target, canary, traffic>>
    /\ req' = NoReq
    /\ UNCHANGED Env

(* handlePromoting: Completed at the last step, else the next step *)
handlePromoting ==
    /\ req.active /\ Dispatch(req.pd.Phase) = "Promoting"
    /\ \E ok \in BOOLEAN :
         LET pd == req.pd
         IN IF AtLastStep(pd)
            THEN /\ updateStatus([pd EXCEPT !.Phase = "Completed",
                                            !.CanaryPercentage = 100], ok)
                 /\ result' = AfterWrite(ok, Result(FALSE, 0, FALSE))
            ELSE IF ~InBounds(pd.CurrentStep + 1)
            THEN /\ UNCHANGED <<status, version>>
                 /\ result' = Panicked
            ELSE /\ updateStatus([pd EXCEPT !.CurrentStep = pd.CurrentStep + 1,
                                            !.CanaryPercentage =
                                                StepPercentage(pd.CurrentStep + 1),
                                            !.Phase = "Analyzing"], ok)
                 /\ result' = AfterWrite(ok, Result(TRUE, 0, FALSE))
    /\ req' = NoReq
    /\ UNCHANGED <<target, canary, traffic>>
    /\ UNCHANGED Env

(* mutant of RolledBack: the rollback also forgets the canary's name *)
RolledBack_ForgetsCanary(pd) ==
    [pd EXCEPT !.Phase = "RolledBack", !.CanaryPercentage = 0,
               !.CanaryDeployment = ""]

(* mutant of RolledBack: the percentage of the interrupted step is kept *)
RolledBack_KeepsPercentage(pd) == [pd EXCEPT !.Phase = "RolledBack"]

(* handleRollingBack: the status it writes *)
RolledBack(pd) == [pd EXCEPT !.Phase = "RolledBack", !.CanaryPercentage = 0]

(* handleRollingBack: marks the record RolledBack *)
handleRollingBack ==
    /\ req.active /\ Dispatch(req.pd.Phase) = "RollingBack"
    /\ \E ok \in BOOLEAN :
         /\ updateStatus(RolledBack(req.pd), ok)
         /\ result' = AfterWrite(ok, Result(FALSE, 0, FALSE))
    /\ req' = NoReq
    /\ UNCHANGED <<target, canary, traffic>>
    /\ UNCHANGED Env

(* Reconcile, the rest of the switch: terminal phases do nothing, any other *)
(* value is reset to Initializing                                           *)
ReconcileTerminal ==
    /\ req.active
    /\ Dispatch(req.pd.Phase) = "other"
    /\ IF IsTerminal(req.pd.Phase)
       THEN /\ UNCHANGED <<status, version>>
            /\ result' = Result(FALSE, 0, FALSE)
       ELSE \E ok \in BOOLEAN :
              /\ updateStatus([req.pd EXCEPT !.Phase = "Initializing"], ok)
              /\ result' = AfterWrite(ok, Result(FALSE, 0, FALSE))
    /\ req' = NoReq
    /\ UNCHANGED <<target, canary, traffic>>
    /\ UNCHANGED Env

Cluster == <<spec, target, canary, now, prom, req, result, preRollout, traffic,
            call, peer>>

(* mutant of promoteRefused: the final-step validation is missing *)
promoteRefused_NoStepCheck(st) ==
    st.Phase # "Analyzing" /\ st.Phase # "Promoting"

(* runPromote: the two validations *)
promoteRefused(st) ==
    \/ st.Phase # "Analyzing" /\ st.Phase # "Promoting"
    \/ st.CurrentStep >= Len(spec.CanarySteps) - 1

(* mutant of rollbackRefused: a rolled-back deployment is not refused *)
rollbackRefused_RolledBackAllowed(st) == st.Phase = "Completed"

(* mutant of rollbackRefused: a completed deployment is not refused *)
rollbackRefused_CompletedAllowed(st) == st.Phase = "RolledBack"

(* runRollback: nothing to do when RolledBack, an error when Completed *)
rollbackRefused(st) == st.Phase = "RolledBack" \/ st.Phase = "Completed"

(* bgswitch promote: Get, validate, UpdateStatus of the fetched object; the *)
(* update is rejected unless the record is still the one fetched            *)
runPromote ==
    /\ IF promoteRefused(status)
       THEN UNCHANGED <<status, version>>
       ELSE IF status.Phase = "Analyzing"
       THEN \E ok \in BOOLEAN :
              IF ok
              THEN Store([status EXCEPT !.Phase = "Promoting"])
              ELSE UNCHANGED <<status, version>>
       ELSE UNCHANGED <<status, version>>
    /\ UNCHANGED Cluster

(* bgswitch rollback: Get, validate, confirm, UpdateStatus *)
runRollback ==
    /\ IF rollbackRefused(status)
       THEN UNCHANGED <<status, version>>
       ELSE \E confirmed \in BOOLEAN, ok \in BOOLEAN :
              IF ~confirmed
              THEN UNCHANGED <<status, version>>
              ELSE IF ok
              THEN Store([status EXCEPT !.Phase = "RollingBack",
                                            !.HealthStatus = "Unhealthy"])
              ELSE UNCHANGED <<status, version>>
    /\ UNCHANGED Cluster

(* the metrics backend answers differently *)
PrometheusChange ==
    /\ \E p \in PromStates : prom' = p /\ p # prom
    /\ UNCHANGED <<spec, status, version, target, canary, now, req, result,
                   preRollout, traffic, call, peer>>

(* time passes *)
Tick ==
    /\ now < MaxTime
    /\ now' = now + 1
    /\ UNCHANGED <<spec, status, version, target, canary, prom, req, result,
                   preRollout, traffic, call, peer>>

Reconcile ==
    \/ ReconcileGet
    \/ ReconcileInitialize
    \/ handleInitializing
    \/ handleAnalyzing
    \/ handlePromoting
    \/ handleRollingBack
    \/ ReconcileTerminal

Next ==
    \/ Reconcile
    \/ runPromote
    \/ runRollback
    \/ PrometheusChange
    \/ Tick

Spec == Init /\ [][Next]_vars

(* the behaviours in which no Reconcile call returns an error: every API *)
(* call succeeds, no status write is rejected, nothing panics            *)
Reliable == ~result'.Err

NextReliable ==
    \/ ReconcileGet
    \/ ReconcileInitialize /\ Reliable
    \/ handleInitializing /\ Reliable
    \/ handleAnalyzing /\ Reliable
    \/ handlePromoting /\ Reliable
    \/ handleRollingBack /\ Reliable
    \/ ReconcileTerminal /\ Reliable
    \/ runPromote
    \/ runRollback
    \/ PrometheusChange
    \/ Tick

SpecReliable == Init /\ [][NextReliable]_vars

(* time passes while a record waits for the end of its analysis period; the *)
(* wait is over after stepDuration, so the clock needs no other bound here  *)
TickWaiting ==
    /\ status.Phase = "Analyzing"
    /\ status.LastAnalysisTime # Null
    /\ StillAnalyzing(status, now)
    /\ now' = now + 1
    /\ UNCHANGED <<spec, status, version, target, canary, prom, req, result,
                   preRollout, traffic, call, peer>>

(* the happy path: autoPromote is on, the metrics stay below their          *)
(* thresholds, every API call succeeds and nobody runs promote or rollback. *)
(* Reconcile calls keep coming (a status change is a watch event, a         *)
(* RequeueAfter is a timer, Requeue and errors requeue) and time passes.    *)
InitHappy ==
    /\ Init
    /\ spec.AutoPromote
    /\ AnalyzeHealth(spec.Metrics, prom).healthy

ReconcileHappy ==
    \/ ReconcileGet
    \/ ReconcileInitialize /\ Reliable
    \/ handleInitializing /\ Reliable
    \/ handleAnalyzing /\ Reliable
    \/ handlePromoting /\ Reliable
    \/ ReconcileTerminal /\ Reliable

NextHappy ==
    \/ ReconcileHappy
    \/ Tick
    \/ TickWaiting

SpecHappy ==
    /\ InitHappy
    /\ [][NextHappy]_vars
    /\ WF_vars(ReconcileHappy)
    /\ WF_vars(TickWaiting)

(* every failure path, with the failures transient: any API call may fail, *)
(* promote and rollback may run at any time, but Reconcile calls keep      *)
(* coming, time passes during a wait, and a handler whose calls can        *)
(* succeed does not fail forever                                           *)
NextFair ==
    \/ Next
    \/ TickWaiting

SpecFair ==
    /\ Init
    /\ [][NextFair]_vars
    /\ WF_vars(Reconcile)
    /\ WF_vars(TickWaiting)
    /\ SF_vars(ReconcileInitialize /\ Reliable)
    /\ SF_vars(handleInitializing /\ Reliable)
    /\ SF_vars(handleAnalyzing /\ Reliable)
    /\ SF_vars(handlePromoting /\ Reliable)
    /\ SF_vars(handleRollingBack /\ Reliable)

----------------------------------------------------------------------------
(* The pure functions, called on their own: the arguments are drawn from *)
(* bounded sets and one step applies the function.                      *)

(* the controller and the CLI do nothing while a function is under test *)
Quiet ==
    /\ status = NoReq.pd
    /\ version = 1
    /\ target = [Replicas |-> 0]
    /\ preRollout = 0
    /\ now = 0
    /\ prom = [errorRate |-> 0, latency |-> 0]
    /\ req = NoReq
    /\ result = Result(FALSE, 0, FALSE)
    /\ traffic = NoTraffic
    /\ peer = NoPeer

Idle ==
    /\ Quiet
    /\ spec = [TargetDeployment |-> "app", CanarySteps |-> <<>>,
               StepDuration |-> 0, Metrics |-> ErrorRateOnly,
               AutoPromote |-> FALSE]
    /\ canary = [Exists |-> FALSE, Replicas |-> 0]

Rest == <<spec, status, version, target, canary, now, prom, req, result,
          preRollout, traffic, peer>>

InitDistribution ==
    /\ Idle
    /\ call \in [fn : {"calculateReplicaDistribution"},
                 args : [totalReplicas : 0..MaxCallTotal,
                         canaryPercentage : (-1)..MaxCallPct],
                 ret : {<<>>}, done : {FALSE}]

CallDistribution ==
    /\ call.fn = "calculateReplicaDistribution" /\ ~call.done
    /\ call' = [call EXCEPT
                  !.ret = calculateReplicaDistribution(call.args.totalReplicas,
                                                       call.args.canaryPercentage),
                  !.done = TRUE]
    /\ UNCHANGED Rest

SpecDistribution == InitDistribution /\ [][CallDistribution]_vars

Thresholds == [Query : {"", "q"}, Threshold : 0..MaxThreshold]
Observations == (0..MaxMetric) \cup {QueryFailed}

InitHealth ==
    /\ Idle
    /\ call \in [fn : {"AnalyzeHealth"},
                 args : [Metrics : [ErrorRate : Thresholds, Latency : Thresholds],
                         prom : [errorRate : Observations,
                                 latency : Observations]],
                 ret : {<<>>}, done : {FALSE}]

CallHealth ==
    /\ call.fn = "AnalyzeHealth" /\ ~call.done
    /\ call' = [call EXCEPT
                  !.ret = AnalyzeHealth(call.args.Metrics, call.args.prom),
                  !.done = TRUE]
    /\ UNCHANGED Rest

SpecHealth == InitHealth /\ [][CallHealth]_vars

(* createCanaryDeployment called, more than once, on a store that may *)
(* already hold a canary of any size                                  *)
Stores == {[Exists |-> FALSE, Replicas |-> 0]}
              \cup [Exists : {TRUE}, Replicas : 0..MaxCallTotal]

Targets == {"app", "web"}

InitCreate ==
    /\ Quiet
    /\ spec \in [TargetDeployment : Targets, CanarySteps : {<<>>},
                  StepDuration : {0}, Metrics : {ErrorRateOnly},
                  AutoPromote : {FALSE}]
    /\ canary \in Stores
    /\ call = [fn |-> "createCanaryDeployment", args |-> <<>>, ret |-> <<>>,
               done |-> FALSE]

(* one call: what the store held, what the API did, what was returned, *)
(* and what the store holds afterwards                                 *)
CallCreate ==
    /\ call.fn = "createCanaryDeployment" /\ Len(call.ret) < MaxCalls
    /\ \E ok \in BOOLEAN :
         LET c == createCanaryDeployment(canary, ok)
         IN /\ canary' = c.canary
            /\ call' = [call EXCEPT
                          !.ret = Append(@, [before |-> canary, apiFailed |-> ~ok,
                                             err |-> c.err, name |-> c.name,
                                             returned |-> c.canary,
                                             after |-> c.canary]),
                          !.done = TRUE]
    /\ UNCHANGED <<spec, status, version, target, now, prom, req, result,
                   preRollout, traffic, peer>>

SpecCreate == InitCreate /\ [][CallCreate]_vars

----------------------------------------------------------------------------
(* Two records of one namespace that name the same target workload. The   *)
(* reconciler keeps no state of its own, so the variables of the record   *)
(* stand for the record the worker holds and peer keeps the other one;    *)
(* the target and the canary Deployment are the cluster's and are shared. *)

InitPeers ==
    /\ spec = [TargetDeployment |-> "app", CanarySteps |-> <<25, 100>>,
               StepDuration |-> 0, Metrics |-> ErrorRateOnly,
               AutoPromote |-> FALSE]
    /\ status = NoReq.pd
    /\ version = 1
    /\ target = [Replicas |-> LargeTotal]
    /\ preRollout = target.Replicas
    /\ canary = [Exists |-> FALSE, Replicas |-> 0]
    /\ now = 0
    /\ prom = [errorRate |-> 0, latency |-> 0]
    /\ req = NoReq
    /\ result = Result(FALSE, 0, FALSE)
    /\ traffic = NoTraffic
    /\ call = NoCall
    /\ peer = [present |-> TRUE, status |-> NoReq.pd, version |-> 1,
               result |-> Result(FALSE, 0, FALSE), traffic |-> NoTraffic]

(* the work queue hands the worker the other record's key *)
Switch ==
    /\ peer.present
    /\ ~req.active
    /\ status' = peer.status
    /\ version' = peer.version
    /\ result' = peer.result
    /\ traffic' = peer.traffic
    /\ peer' = [peer EXCEPT !.status = status, !.version = version,
                            !.result = result, !.traffic = traffic]
    /\ UNCHANGED <<spec, target, canary, now, prom, req, preRollout, call>>

NextPeers ==
    \/ Switch
    \/ ReconcileGet
    \/ ReconcileInitialize /\ Reliable
    \/ handleInitializing /\ Reliable
    \/ handleAnalyzing /\ Reliable
    \/ handlePromoting /\ Reliable
    \/ ReconcileTerminal /\ Reliable

SpecPeers == InitPeers /\ [][NextPeers]_vars

----------------------------------------------------------------------------
(* Vocabulary of the properties *)

(* a step of a Reconcile call: it fetches the record, or it handles it *)
ReconcileStep == req' # req

(* the step in which a Reconcile call handles the record it fetched *)
HandlerStep == req.active /\ ~req'.active

(* adjustTraffic ran to its end for the step the record is at *)
TrafficApplied == traffic.done /\ traffic.step = status.CurrentStep

DocumentedEdges ==
    { <<"", "Initializing">>, <<"Initializing", "Analyzing">>,
      <<"Initializing", "Failed">>, <<"Analyzing", "Promoting">>,
      <<"Promoting", "Analyzing">>, <<"Promoting", "Completed">>,
      <<"RollingBack", "RolledBack">> }
    \cup { <<p, "RollingBack">> : p \in Phases \ (Terminal \cup {"RollingBack"}) }

----------------------------------------------------------------------------
(* C1: terminal absorption. While the record's phase is Completed,        *)
(* RolledBack or Failed, no step of a Reconcile call changes a status     *)
(* field or the replica count (or existence) of the target or the canary. *)
C1_TerminalAbsorption ==
    [][(status.Phase \in Terminal /\ ReconcileStep)
         => (status' = status /\ target' = target /\ canary' = canary)]_vars

(* C1 witness: Failed is only ever written by a Reconcile call that returns *)
(* an error, so a Failed record whose last Reconcile call returned no error *)
(* has been through a whole Reconcile call while it was Failed.             *)
C1_Witness ==
    status.Phase = "Failed" /\ ~result.Err /\ ~req.active

C3_TimestampIffApplied ==
    (status.LastAnalysisTime # Null)
        <=> (status.Phase = "Analyzing" /\ TrafficApplied)

(* C4: while the record is Analyzing with a timestamp less than stepDuration *)
(* old, a step of a Reconcile call scales nothing and changes no status      *)
(* field.                                                                    *)
C4_WaitIsIdempotent ==
    [][(/\ status.Phase = "Analyzing"
        /\ status.LastAnalysisTime # Null
        /\ spec.StepDuration > 0
        /\ now - status.LastAnalysisTime < spec.StepDuration
        /\ ReconcileStep)
         => (status' = status /\ target' = target /\ canary' = canary)]_vars

(* C4 witness: a Reconcile call has returned a wake shorter than           *)
(* stepDuration, which only the waiting branch does, and the record is     *)
(* still waiting.                                                          *)
C4_Witness ==
    /\ status.Phase = "Analyzing"
    /\ status.LastAnalysisTime # Null
    /\ now - status.LastAnalysisTime < spec.StepDuration
    /\ ~req.active
    /\ ~result.Err
    /\ result.RequeueAfter > 0
    /\ result.RequeueAfter < spec.StepDuration

(* C5 as stated: once adjustTraffic has run to its end for a step, however  *)
(* many attempts it took, the target and the canary hold the distribution   *)
(* that the first attempt of the step computed (what a single successful    *)
(* application produces).                                                   *)
C5_ReapplicationIdempotent ==
    traffic.done
        => (target.Replicas = traffic.stable /\ canary.Replicas = traffic.canary)

(* C6 as stated: the Reconcile call that ends the wait of a step decides by *)
(* the verdict of AnalyzeHealth: healthy moves the record to Promoting with *)
(* Healthy and no timestamp, unhealthy to RollingBack with Unhealthy.       *)
C6_VerdictDecides ==
    [][(/\ HandlerStep
        /\ req.pd.Phase = "Analyzing"
        /\ req.pd.LastAnalysisTime # Null
        /\ ~StillAnalyzing(req.pd, now)
        /\ status' # status)
         => LET v == AnalyzeHealth(spec.Metrics, prom)
            IN /\ (~v.err /\ v.healthy)
                    => /\ status'.Phase = "Promoting"
                       /\ status'.HealthStatus = "Healthy"
                       /\ status'.LastAnalysisTime = Null
               /\ (~v.err /\ ~v.healthy)
                    => /\ status'.Phase = "RollingBack"
                       /\ status'.HealthStatus = "Unhealthy"]_vars

(* C7 as stated: with autoPromote = false no step of a Reconcile call moves *)
(* the phase from Analyzing to Promoting.                                   *)
C7_NoAutomaticPromotion ==
    [][(~spec.AutoPromote /\ status.Phase = "Analyzing"
            /\ status'.Phase = "Promoting")
         => ~ReconcileStep]_vars

(* C8 as stated: whoever wrote Promoting at step k, the record then goes  *)
(* through step k+1 in full: a Reconcile call ends the wait of a step     *)
(* only after the distribution of that step has been applied (and the     *)
(* timestamp stamped after it).                                           *)
C8_StepAppliedBeforeEvaluation ==
    [][(/\ HandlerStep
        /\ status.Phase = "Analyzing"
        /\ status'.Phase = "Promoting")
         => TrafficApplied]_vars

(* C9 as stated: a RolledBack record has percentage 0 and its target has *)
(* the replica count it had before the rollout.                          *)
C9_RolledBackRestoresStable ==
    status.Phase = "RolledBack"
        => (target.Replicas = preRollout /\ status.CanaryPercentage = 0)

(* C10 as stated: the canary of a RolledBack record has 0 replicas or does *)
(* not exist.                                                              *)
C10_RolledBackRetiresCanary ==
    status.Phase = "RolledBack"
        => (~canary.Exists \/ canary.Replicas = 0)

(* C11: a Reconcile call whose copy of the record is stale (promote or     *)
(* rollback changed the record after the fetch) changes no status field:   *)
(* what the command wrote stays persisted; and every fetch takes the       *)
(* record as it is persisted then.                                         *)
C11_StaleWriteRejected ==
    [][/\ (HandlerStep /\ req.rv # version)
            => (status' = status /\ version' = version)
       /\ (~req.active /\ req'.active)
            => (req'.pd = status /\ req'.rv = version)]_vars

(* C11 witness: the last Reconcile call ended with its status write rejected *)
(* as stale, and the RollingBack / Unhealthy of the rollback command is      *)
(* what is persisted.                                                        *)
C11_Witness ==
    /\ ~req.active
    /\ result.Conflict
    /\ status.Phase = "RollingBack"
    /\ status.HealthStatus = "Unhealthy"

(* C12: monotonic step progression. No step of the system, by a Reconcile *)
(* call or by a command, decreases the persisted CurrentStep.             *)
C12_StepNeverDecreases ==
    [][status'.CurrentStep >= status.CurrentStep]_vars

(* C12 witness: a record that advanced past step 0 and reached a terminal *)
(* phase.                                                                 *)
C12_Witness ==
    status.CurrentStep > 0 /\ status.Phase \in Terminal

(* C13: while the phase is Analyzing or Promoting, CurrentStep is an index *)
(* of canarySteps and CanaryPercentage is the entry at that index.         *)
C13_PercentageOfCurrentStep ==
    status.Phase \in {"Analyzing", "Promoting"}
        => /\ status.CurrentStep + 1 \in DOMAIN spec.CanarySteps
           /\ status.CanaryPercentage = spec.CanarySteps[status.CurrentStep + 1]

(* C13 witness: the record is Promoting at its second step. *)
C13_Witness ==
    /\ status.Phase = "Promoting"
    /\ status.CurrentStep = 1
    /\ status.CanaryPercentage = 100

HappyEdges ==
    { <<"", "Initializing">>, <<"Initializing", "Analyzing">>,
      <<"Analyzing", "Promoting">>, <<"Promoting", "Analyzing">>,
      <<"Promoting", "Completed">> }

(* C14: on the happy path of a record with N >= 1 steps the phase moves    *)
(* only along unset -> Initializing -> Analyzing -> Promoting ->           *)
(* (Analyzing | Completed); Analyzing is entered at step 0 from            *)
(* Initializing and at the next step from Promoting (so once per step, N   *)
(* times by the end); and the record ends, for good, Completed at the last *)
(* step with percentage 100 and health Healthy.                            *)
C14_HappyPath ==
    /\ [][status'.Phase # status.Phase
            => /\ <<status.Phase, status'.Phase>> \in HappyEdges
               /\ status'.Phase = "Analyzing"
                    => status'.CurrentStep =
                         IF status.Phase = "Initializing"
                         THEN 0 ELSE status.CurrentStep + 1]_vars
    /\ <>[](\/ Len(spec.CanarySteps) = 0
            \/ /\ status.Phase = "Completed"
               /\ status.CurrentStep = Len(spec.CanarySteps) - 1
               /\ status.CanaryPercentage = 100
               /\ status.HealthStatus = "Healthy")

(* C14 witness: a two-step rollout has completed. *)
C14_Witness ==
    /\ Len(spec.CanarySteps) = 2
    /\ status.Phase = "Completed"
    /\ status.CurrentStep = 1
    /\ status.CanaryPercentage = 100
    /\ status.HealthStatus = "Healthy"

(* C15 as stated: every record eventually reaches a terminal phase. *)
C15_EventuallyTerminal ==
    <>(status.Phase \in Terminal)

(* C16 as stated: when the evaluation of an Analyzing record is due and a *)
(* metric query fails, the Reconcile call leaves the persisted phase as   *)
(* it is.                                                                 *)
C16_QueryFailureKeepsPhase ==
    [][(/\ HandlerStep
        /\ req.pd.Phase = "Analyzing"
        /\ req.pd.LastAnalysisTime # Null
        /\ ~StillAnalyzing(req.pd, now)
        /\ AnalyzeHealth(spec.Metrics, prom).err)
         => status'.Phase = status.Phase]_vars

(* C17: the phase becomes Failed only in the step of a Reconcile call that *)
(* handles the record in Initializing and returns an error.                *)
C17_FailedOnlyFromInitializing ==
    [][(status'.Phase = "Failed" /\ status.Phase # "Failed")
         => /\ HandlerStep
            /\ req.pd.Phase = "Initializing"
            /\ status.Phase = "Initializing"
            /\ result'.Err]_vars

(* C17 witness: the record is Failed and the last Reconcile call, the one *)
(* that marked it, returned an error.                                     *)
C17_Witness ==
    status.Phase = "Failed" /\ result.Err /\ ~req.active

(* the Reconcile call in flight handles the record in Analyzing, Promoting *)
(* or RollingBack and is past the waiting branch: it has work to do        *)
HandlesWork ==
    /\ HandlerStep
    /\ \/ req.pd.Phase \in {"Promoting", "RollingBack"}
       \/ /\ req.pd.Phase = "Analyzing"
          /\ \/ req.pd.LastAnalysisTime = Null
             \/ ~StillAnalyzing(req.pd, now)

(* C18: a Reconcile call that handles Analyzing, Promoting or RollingBack *)
(* and returns an error leaves the persisted phase, step and percentage   *)
(* as they were; and one that has work to do and does not get its status  *)
(* written (a fetch, a scale call or the write failed) returns an error.  *)
C18_FailureReturnedAndStatusKept ==
    [][/\ (/\ HandlerStep
           /\ req.pd.Phase \in {"Analyzing", "Promoting", "RollingBack"}
           /\ result'.Err)
            => /\ status'.Phase = status.Phase
               /\ status'.CurrentStep = status.CurrentStep
               /\ status'.CanaryPercentage = status.CanaryPercentage
       /\ (HandlesWork /\ status' = status) => result'.Err]_vars

(* C18 witness: adjustTraffic was attempted for the step the record is at *)
(* and never ran to its end; the last Reconcile call returned an error    *)
(* and the record is still Analyzing, its timestamp unset.                *)
C18_Witness ==
    /\ status.Phase = "Analyzing"
    /\ status.LastAnalysisTime = Null
    /\ traffic.step = status.CurrentStep
    /\ ~traffic.done
    /\ result.Err
    /\ ~req.active

(* a step in which promote or rollback wrote the status: no Reconcile call *)
(* moved, and the status changed                                           *)
CommandStep == req' = req /\ status' # status

(* promote is permitted: Analyzing or Promoting, and not at the last step *)
PromotePermitted ==
    /\ status.Phase \in {"Analyzing", "Promoting"}
    /\ status.CurrentStep < Len(spec.CanarySteps) - 1

DistributionReturned == call.fn = "calculateReplicaDistribution" /\ call.done

(* C21: for total >= 0 and 0 < p < 100 the canary count is the least c    *)
(* with 100 * c >= total * p (the ceiling of total * p / 100), the stable *)
(* count is total - canary, and both are >= 0.                            *)
C21_CeilingSplit ==
    DistributionReturned
        => LET total == call.args.totalReplicas
               p == call.args.canaryPercentage
               r == call.ret
           IN (total >= 0 /\ 0 < p /\ p < 100)
                => /\ 100 * r.canary >= total * p
                   /\ 100 * (r.canary - 1) < total * p
                   /\ r.stable = total - r.canary
                   /\ r.stable + r.canary = total
                   /\ r.stable >= 0 /\ r.canary >= 0

(* C21 witness: 10 replicas at 25% were split 7 / 3. *)
C21_Witness ==
    /\ DistributionReturned
    /\ call.args = [totalReplicas |-> 10, canaryPercentage |-> 25]
    /\ call.ret = [stable |-> 7, canary |-> 3]

(* C22: for total >= 0 the result is (total, 0) for p <= 0 and (0, total) *)
(* for p >= 100.                                                          *)
C22_ClampedPercentages ==
    DistributionReturned
        => LET total == call.args.totalReplicas
               p == call.args.canaryPercentage
           IN /\ p <= 0 => call.ret = [stable |-> total, canary |-> 0]
              /\ p >= 100 => call.ret = [stable |-> 0, canary |-> total]

(* C22 witness: 10 replicas at 101% all went to the canary. *)
C22_Witness ==
    /\ DistributionReturned
    /\ call.args = [totalReplicas |-> 10, canaryPercentage |-> 101]
    /\ call.ret = [stable |-> 0, canary |-> 10]

(* C23: ceiling bias: for total >= 1 and p >= 1 the canary count is at *)
(* least 1.                                                            *)
C23_CeilingBias ==
    DistributionReturned
        => ((call.args.totalReplicas >= 1 /\ call.args.canaryPercentage >= 1)
              => call.ret.canary >= 1)

(* C23 witness: 1% of one replica is one canary replica. *)
C23_Witness ==
    /\ DistributionReturned
    /\ call.args = [totalReplicas |-> 1, canaryPercentage |-> 1]
    /\ call.ret = [stable |-> 0, canary |-> 1]


(* C24: whenever the traffic adjustment of a step k completes, the stable  *)
(* and canary replica counts are the distribution of the pre-rollout count *)
(* T at canarySteps[k], so stable + canary = T.                            *)
C24_DistributionOfPreRollout ==
    [][(HandlerStep /\ traffic' # traffic /\ traffic'.done)
         => LET d == calculateReplicaDistribution(
                         preRollout, spec.CanarySteps[traffic'.step + 1])
            IN /\ target'.Replicas = d.stable
               /\ canary'.Replicas = d.canary
               /\ target'.Replicas + canary'.Replicas = preRollout]_vars


(* a call of AnalyzeHealth has returned *)
HealthReturned == call.fn = "AnalyzeHealth" /\ call.done

(* the two checks of AnalyzeHealth: the field of spec.metrics and the key *)
(* of the observed-values map                                             *)
Checks == { [field |-> "ErrorRate", key |-> "errorRate"],
            [field |-> "Latency", key |-> "latency"] }

(* the checks of the call whose query is not empty *)
ConfiguredChecks == { c \in Checks : call.args.Metrics[c.field].Query # "" }

(* every configured query of the call is answered with a value *)
AllQueriesSucceed == \A c \in ConfiguredChecks : call.args.prom[c.key] # QueryFailed

C26_QueryFailureIsAnError ==
    (HealthReturned /\ ~AllQueriesSucceed)
        => /\ call.ret.err
           /\ call.ret.metrics = NilMetrics
           /\ ~call.ret.healthy

(* C26 witness: errorRate is within its threshold, the latency query *)
(* fails, and the call returned an error.                            *)
C26_Witness ==
    /\ HealthReturned
    /\ ConfiguredChecks = Checks
    /\ call.args.prom.errorRate = 0
    /\ call.args.prom.latency = QueryFailed
    /\ call.ret.err

(* C27: with both queries empty AnalyzeHealth returns healthy=true, an *)
(* empty observed-values map and no error, and queries nothing.        *)
C27_NoChecksIsHealthy ==
    (HealthReturned /\ ConfiguredChecks = {})
        => /\ call.ret.healthy
           /\ call.ret.metrics = {}
           /\ ~call.ret.err
           /\ call.ret.queried = {}

(* C27 witness: no check configured while the backend would fail every *)
(* query: healthy, nothing queried.                                    *)
C27_Witness ==
    /\ HealthReturned
    /\ ConfiguredChecks = {}
    /\ call.args.prom = [errorRate |-> QueryFailed, latency |-> QueryFailed]
    /\ call.ret.healthy /\ call.ret.queried = {}

(* C28: when all configured queries succeed the observed-values map holds *)
(* the value of every configured check, also with an unhealthy verdict,   *)
(* and every configured check was queried.                                *)
C28_ObservedValuesAlwaysReturned ==
    (HealthReturned /\ AllQueriesSucceed)
        => /\ call.ret.metrics
                = { <<c.key, call.args.prom[c.key]>> : c \in ConfiguredChecks }
           /\ call.ret.queried = { c.key : c \in ConfiguredChecks }

(* C28 witness: errorRate above its threshold, and the latency value is *)
(* recorded all the same in an unhealthy verdict.                       *)
C28_Witness ==
    /\ HealthReturned
    /\ ConfiguredChecks = Checks
    /\ call.args.prom.errorRate = 2 /\ call.args.Metrics.ErrorRate.Threshold = 1
    /\ ~call.ret.healthy /\ ~call.ret.err
    /\ <<"latency", call.args.prom.latency>> \in call.ret.metrics


(* C29: once status.CanaryDeployment is a non-empty name, no Reconcile and *)
(* no manual override clears it or changes it.                             *)
C29_CanaryNameKept ==
    [][status.CanaryDeployment # ""
         => status'.CanaryDeployment = status.CanaryDeployment]_vars

(* C29 witness: a rollout that recorded its canary was rolled back by *)
(* hand, and the name is still recorded.                              *)
C29_Witness ==
    /\ status.Phase = "RolledBack"
    /\ status.CanaryDeployment = CanaryName(spec.TargetDeployment)


(* the calls of createCanaryDeployment made so far *)
CreateCalls == IF call.fn = "createCanaryDeployment" THEN call.ret ELSE <<>>

(* C30: createCanaryDeployment is idempotent: the name is always           *)
(* "<target>-canary"; a canary that already exists is returned as it is,   *)
(* with no error, and is left as it is in the store, so that a second call *)
(* leaves the store as the first one left it.                              *)
C30_CreateIsIdempotent ==
    /\ \A i \in 1..Len(CreateCalls) :
         LET r == CreateCalls[i]
         IN /\ r.name = spec.TargetDeployment \o "-canary"
            /\ r.before.Exists
                 => /\ r.after = r.before
                    /\ ~r.apiFailed => (~r.err /\ r.returned = r.before)
    /\ (Len(CreateCalls) >= 2 /\ ~CreateCalls[1].err)
         => CreateCalls[2].after = CreateCalls[1].after

(* C30 witness: a canary with 3 replicas existed; two calls returned it *)
(* without an error and the store still holds it with 3 replicas.       *)
C30_Witness ==
    /\ Len(CreateCalls) = 2
    /\ CreateCalls[1].before = [Exists |-> TRUE, Replicas |-> 3]
    /\ ~CreateCalls[1].err /\ ~CreateCalls[2].err
    /\ CreateCalls[2].returned = [Exists |-> TRUE, Replicas |-> 3]
    /\ canary = [Exists |-> TRUE, Replicas |-> 3]


(* C31: for a record with a non-empty canarySteps list, the stored *)
(* CurrentStep is always an index of the list.                     *)
C31_StepWithinList ==
    Len(spec.CanarySteps) > 0
        => (0 <= status.CurrentStep /\ status.CurrentStep < Len(spec.CanarySteps))

(* C31 witness: a rollout of two steps has reached its last step. *)
C31_Witness ==
    /\ Len(spec.CanarySteps) = 2
    /\ status.Phase = "Analyzing"
    /\ status.CurrentStep = 1

(* C32: in a terminal phase CanaryPercentage is 100 when the phase is *)
(* Completed and 0 when it is RolledBack or Failed.                   *)
C32_TerminalPercentage ==
    /\ status.Phase = "Completed" => status.CanaryPercentage = 100
    /\ status.Phase \in {"RolledBack", "Failed"} => status.CanaryPercentage = 0

(* C32 witness: a rollout was rolled back during a step of 25% or 50% and *)
(* its percentage is 0.                                                   *)
C32_Witness ==
    /\ status.Phase = "RolledBack"
    /\ status.CanaryDeployment # ""
    /\ status.CanaryPercentage = 0

(* C39: no Reconcile call reads canarySteps at an index outside the list *)
(* (no call ends in an index-out-of-range panic).                        *)
C39_IndexWithinBounds == ~result.Panic


(* a Reconcile call handling Analyzing with no analysis-start timestamp *)
FirstAnalyzingStep ==
    /\ HandlerStep
    /\ req.pd.Phase = "Analyzing"
    /\ req.pd.LastAnalysisTime = Null

(* the call has scaled the stable and the canary resource to the shares *)
(* adjustTraffic computes for the percentage of the step                *)
ScaledBoth ==
    LET d == calculateReplicaDistribution(target.Replicas,
                                          req.pd.CanaryPercentage)
    IN /\ canary.Exists
       /\ target'.Replicas = d.stable
       /\ canary'.Replicas = d.canary

(* C33: in the first Analyzing reconcile of a step the analysis-start   *)
(* timestamp is stored only by a call that has scaled both resources; a *)
(* call that has not scaled both leaves the status as it is, returns an *)
(* error and arms no wake.                                              *)
C33_ScaleBeforeStamp ==
    [][FirstAnalyzingStep
         => /\ status'.LastAnalysisTime # status.LastAnalysisTime => ScaledBoth
            /\ ~ScaledBoth => /\ status' = status
                              /\ result'.Err
                              /\ result'.RequeueAfter = 0]_vars

(* C33 witness: the timestamp is stored, both resources carry the shares *)
(* of the step and the wake after stepDuration is armed.                 *)
C33_Witness ==
    /\ status.Phase = "Analyzing"
    /\ status.LastAnalysisTime # Null
    /\ TrafficApplied
    /\ target.Replicas = traffic.stable
    /\ canary.Replicas = traffic.canary /\ canary.Replicas > 0
    /\ result.RequeueAfter = spec.StepDuration /\ spec.StepDuration > 0


(* a Reconcile call handling Analyzing with the analysis-start timestamp set *)
WaitingStep ==
    /\ HandlerStep
    /\ req.pd.Phase = "Analyzing"
    /\ req.pd.LastAnalysisTime # Null

(* C34: a Reconcile call that finds the timestamp set never stores another *)
(* timestamp; before timestamp + stepDuration it changes nothing and       *)
(* returns a wake after exactly stepDuration - elapsed; at or after it, it *)
(* evaluates (the record moves to Promoting, or the write fails and the    *)
(* call returns the error).                                                *)
C34_WaitFromPersistedTimestamp ==
    [][WaitingStep
         => LET elapsed == now - req.pd.LastAnalysisTime
            IN /\ status'.LastAnalysisTime \in {status.LastAnalysisTime, Null}
               /\ elapsed < spec.StepDuration
                    => /\ status' = status
                       /\ ~result'.Err /\ ~result'.Requeue
                       /\ result'.RequeueAfter = spec.StepDuration - elapsed
               /\ elapsed >= spec.StepDuration
                    => \/ /\ status'.Phase = "Promoting"
                          /\ status'.LastAnalysisTime = Null
                       \/ /\ result'.Err
                          /\ status' = status]_vars

(* C34 witness: after a wait of stepDuration the step was evaluated and *)
(* the timestamp cleared.                                               *)
C34_Witness ==
    /\ status.Phase = "Promoting"
    /\ status.HealthStatus = "Healthy"
    /\ status.LastAnalysisTime = Null
    /\ spec.StepDuration = MaxDuration
    /\ now >= MaxDuration
    /\ ~req.active /\ ~result.Err


(* C35: a Reconcile call that handles Initializing and returns no error   *)
(* leaves the record in Analyzing at step 0 with the percentage of the    *)
(* first step, the canary's name recorded and no analysis-start           *)
(* timestamp; a canary it created has 0 replicas, and the stable resource *)
(* keeps its replica count.                                               *)
C35_InitializingToAnalyzing ==
    [][(HandlerStep /\ req.pd.Phase = "Initializing" /\ ~result'.Err)
         => /\ status'.Phase = "Analyzing"
            /\ status'.CurrentStep = 0
            /\ status'.CanaryPercentage = spec.CanarySteps[1]
            /\ status'.CanaryDeployment = spec.TargetDeployment \o "-canary"
            /\ status'.LastAnalysisTime = Null
            /\ canary'.Exists
            /\ ~canary.Exists => canary'.Replicas = 0
            /\ target' = target]_vars

(* C35 witness: Initializing has just been handled: Analyzing at step 0, *)
(* an empty canary, the stable resource at its pre-rollout count.        *)
C35_Witness ==
    /\ status.Phase = "Analyzing"
    /\ status.CurrentStep = 0
    /\ status.CanaryDeployment = CanaryName(spec.TargetDeployment)
    /\ status.LastAnalysisTime = Null
    /\ canary.Exists /\ canary.Replicas = 0
    /\ target.Replicas = preRollout
    /\ ~req.active /\ ~result.Err
    /\ ~traffic.done


(* C36: whenever the record is Completed, the distribution of the last *)
(* step has been applied to the stable and the canary resource.        *)
C36_CompletedAfterLastStepApplied ==
    status.Phase = "Completed"
        => /\ status.CurrentStep = Len(spec.CanarySteps) - 1
           /\ traffic.done
           /\ traffic.step = Len(spec.CanarySteps) - 1


(* C37: two distinct records never record the same canary resource in *)
(* their status (each canary has one owning record, which alone       *)
(* scales it).                                                        *)
C37_CanaryNotShared ==
    peer.present
        => ~(/\ status.CanaryDeployment # ""
             /\ peer.status.CanaryDeployment = status.CanaryDeployment)


(* C38: a Reconcile call that handles a record fetched in a non-terminal *)
(* phase and returns no error has changed the stored status or returns a *)
(* positive requeue delay.                                               *)
C38_NoStall ==
    [][(/\ HandlerStep
        /\ req.pd.Phase \notin {"Completed", "RolledBack", "Failed"}
        /\ ~result'.Err)
         => (status' # status \/ result'.RequeueAfter > 0)]_vars

(* C38 witness: one tick before the deadline a Reconcile call left the *)
(* Analyzing record as it was and asked to be woken after one tick.    *)
C38_Witness ==
    /\ status.Phase = "Analyzing"
    /\ status.LastAnalysisTime # Null
    /\ now = status.LastAnalysisTime + spec.StepDuration - 1
    /\ ~req.active /\ ~result.Err
    /\ result.RequeueAfter = 1

====
